---------------------------- MODULE Spec2Model ----------------------------
(***************************************************************************)
(* The error-state Kalman filter of lidar_eskf (src/src/eskf.cpp) as a     *)
(* state machine.  One ESKF object lives in a single-threaded ROS event    *)
(* loop; each delivered message runs one callback to completion.           *)
(*                                                                         *)
(* Numbers.  The filter computes in doubles.  Here a quantity is an        *)
(* integer in a fixed unit wherever the code's arithmetic on the chosen    *)
(* inputs is exact, and a term (a tagged tuple naming the operation and    *)
(* its operands) wherever it is not: the Kalman gain, the Joseph update,   *)
(* Eigen's block products.  Terms are equal exactly when they were built   *)
(* by the same operations from the same operands.  The 15x15 covariance   *)
(* is kept by name: Sigma is <<"zero">> or <<"Sigma", k>>, the k-th value  *)
(* assigned to _Sigma, and Sigma_hist[k] is the expression that defined    *)
(* it, which names the value before it.                                    *)
(*   time          ticks of 1/TicksPerSec s                                *)
(*   acceleration  units of 9.82/120 m/s^2 (120 is divisible by every      *)
(*                 queue size used and the quotients are even)             *)
(*   angle         quarter turns (sin and cos are then 0, 1 or -1)         *)
(*   noise sigma   units of 1e-5                                           *)
(***************************************************************************)
EXTENDS Integers, Sequences, FiniteSets, TLC

VARIABLES
    ps,        \* the ROS parameter server: a function from names to values
    eskf,      \* the ESKF object's fields, its publishers' sent messages, its trace
    crashed,   \* the process died inside a handler (undefined behaviour)
    now,       \* clock reading, in ticks, at the latest IMU sample delivered
    ev,        \* kind of the latest event: "init", "imu" or "meas"
    n_imu,     \* IMU samples delivered
    n_meas,    \* pose observations delivered
    burst,     \* pose observations delivered since the latest IMU sample
    last_burst,\* value of burst when the latest IMU sample was delivered
    last_imu,  \* the latest IMU message
    samples,   \* every accelerometer sample delivered, oldest first
    applied,   \* the observation vector y of every correction run, oldest first
    fresh,     \* a pose observation was delivered since the latest correction
    dropped    \* positions of the observations that another one overwrote while pending

vars == <<ps, eskf, crashed, now, ev, n_imu, n_meas, burst, last_burst, last_imu,
          samples, applied, fresh, dropped>>

(* Bounds on the event sequence. *)
MaxImu == 4
MaxMeas == 2

(* ros::Time::toSec: ticks per second. *)
TicksPerSec == 100

(***************************************************************************)
(* Scalars, vectors and 3x3 matrices.                                      *)
(***************************************************************************)
Num(n) == <<"num", n>>
IsNum(s) == s[1] = "num"

Abs(n) == IF n < 0 THEN -n ELSE n

(* 1.0 / f in ticks: an integer when f divides TicksPerSec, a term         *)
(* otherwise (f = 0 gives the term for 1.0/0.0).                           *)
Recip(f) ==
    IF f # 0 /\ TicksPerSec % Abs(f) = 0
    THEN Num(IF f > 0 THEN TicksPerSec \div f ELSE -(TicksPerSec \div (-f)))
    ELSE <<"recip", f>>

Vec(x, y, z) == <<"vec", <<x, y, z>>>>
IsVec(v) == v[1] = "vec"
VZero == Vec(0, 0, 0)

Mat(r1, r2, r3) == <<"mat", <<r1, r2, r3>>>>
IsMat(m) == m[1] = "mat"
MIdentity == Mat(<<1, 0, 0>>, <<0, 1, 0>>, <<0, 0, 1>>)

(* tf::Vector3 operator+ and operator- *)
VAdd(a, b) ==
    IF IsVec(a) /\ IsVec(b)
    THEN Vec(a[2][1] + b[2][1], a[2][2] + b[2][2], a[2][3] + b[2][3])
    ELSE <<"vadd", a, b>>

VSub(a, b) ==
    IF IsVec(a) /\ IsVec(b)
    THEN Vec(a[2][1] - b[2][1], a[2][2] - b[2][2], a[2][3] - b[2][3])
    ELSE <<"vsub", a, b>>

(* tf::Vector3 operator*(scalar) *)
VScale(a, s) ==
    IF IsVec(a) /\ IsNum(s)
    THEN Vec(a[2][1] * s[2], a[2][2] * s[2], a[2][3] * s[2])
    ELSE <<"vscale", a, s>>

(* 0.5 * v *)
VHalf(a) ==
    IF IsVec(a) /\ a[2][1] % 2 = 0 /\ a[2][2] % 2 = 0 /\ a[2][3] % 2 = 0
    THEN Vec(a[2][1] \div 2, a[2][2] \div 2, a[2][3] \div 2)
    ELSE <<"vhalf", a>>

Dot(r, c) == r[1] * c[1] + r[2] * c[2] + r[3] * c[3]
Col(rows, j) == <<rows[1][j], rows[2][j], rows[3][j]>>

(* tf::Matrix3x3 * tf::Vector3 *)
MV(m, v) ==
    IF IsMat(m) /\ IsVec(v)
    THEN Vec(Dot(m[2][1], v[2]), Dot(m[2][2], v[2]), Dot(m[2][3], v[2]))
    ELSE <<"mv", m, v>>

(* tf::Matrix3x3 * tf::Matrix3x3 *)
MM(a, b) ==
    IF IsMat(a) /\ IsMat(b)
    THEN Mat([j \in 1..3 |-> Dot(a[2][1], Col(b[2], j))],
             [j \in 1..3 |-> Dot(a[2][2], Col(b[2], j))],
             [j \in 1..3 |-> Dot(a[2][3], Col(b[2], j))])
    ELSE <<"mm", a, b>>

(* cos and sin of q quarter turns *)
CosQ(q) == CASE q % 4 = 0 -> 1 [] q % 4 = 2 -> -1 [] OTHER -> 0
SinQ(q) == CASE q % 4 = 1 -> 1 [] q % 4 = 3 -> -1 [] OTHER -> 0

(* atan2(y, x) in quarter turns, for y, x in {-1, 0, 1} not both 0 *)
Atan2Q(y, x) ==
    CASE y = 0 /\ x > 0 -> 0
      [] y > 0 /\ x = 0 -> 1
      [] y = 0 /\ x < 0 -> 2
      [] y < 0 /\ x = 0 -> -1
      [] OTHER -> 0

(* tf::Matrix3x3::setRPY(roll, pitch, yaw) *)
setRPY(roll, pitch, yaw) ==
    LET ci == CosQ(roll)  cj == CosQ(pitch)  ch == CosQ(yaw)
        si == SinQ(roll)  sj == SinQ(pitch)  sh == SinQ(yaw)
        cc == ci * ch  cs == ci * sh  sc == si * ch  ss == si * sh
    IN Mat(<<cj * ch, sj * sc - cs, sj * cc + ss>>,
           <<cj * sh, sj * ss + cc, sj * cs - sc>>,
           <<-sj,     cj * si,      cj * ci>>)

(* tf::Matrix3x3::getRPY: roll, pitch, yaw of a rotation by right angles *)
getRPY(m) ==
    IF ~IsMat(m) THEN <<"getRPY", m>>
    ELSE LET e == m[2] IN
         IF Abs(e[3][1]) >= 1
         THEN IF e[3][1] < 0
              THEN Vec(Atan2Q(e[1][2], e[1][3]), 1, 0)
              ELSE Vec(Atan2Q(-e[1][2], -e[1][3]), -1, 0)
         ELSE Vec(Atan2Q(e[3][2], e[3][3]), 0, Atan2Q(e[2][1], e[1][1]))

(* A quaternion is named by the rotation it stands for. *)
Quat(m) == <<"quat", m>>
(* tf::Matrix3x3::getRotation(q) *)
getRotation(m) == Quat(m)
(* tf::Matrix3x3::setRotation(q) *)
setRotation(q) == q[2]

vec_to_rot(w) ==
    IF IsVec(w) THEN setRPY(w[2][1], w[2][2], w[2][3]) ELSE <<"rpy", w>>

skew(w) ==
    IF IsVec(w)
    THEN Mat(<<0,        -w[2][3],  w[2][2]>>,
             <<w[2][3],   0,       -w[2][1]>>,
             <<-w[2][2],  w[2][1],  0>>)
    ELSE <<"skew", w>>

(***************************************************************************)
(* Configuration.                                                          *)
(***************************************************************************)
ImuFreqDefault == 50
SigmaAccDefault == 10000
SigmaGyrDefault == 1000
SigmaBiasAccDefault == 10
SigmaBiasGyrDefault == 1
GravityDefault == 120
InitBiasAccDefault == 0
AccQueueSizeDefault == 5

(* ros::NodeHandle::param(name, var, default) *)
param(server, name, default) ==
    IF name \in DOMAIN server THEN server[name] ELSE default

NoParams == [n \in {} |-> 0]

(* Parameter servers with imu_frequency > 0 and acc_queue_size >= 1. *)
ValidParamServers ==
    { NoParams,
      ("acc_queue_size" :> 1) @@ ("sigma_gyroscope" :> 2000),
      ("acc_queue_size" :> 2) @@ ("sigma_gyroscop" :> 3000) @@ ("imu_frequency" :> 100),
      ("acc_queue_size" :> 2) @@ ("gravity" :> -120) @@ ("sigma_gyroscope" :> 2000)
          @@ ("sigma_gyroscop" :> 3000),
      ("acc_queue_size" :> 3) @@ ("init_bias_acc_z" :> 120) @@ ("sigma_acceleration" :> 20000) }

(* Parameter servers the constructor is also handed without complaint. *)
InvalidParamServers ==
    { ("imu_frequency" :> 0),
      ("imu_frequency" :> -50) @@ ("acc_queue_size" :> 1),
      ("acc_queue_size" :> 0),
      ("acc_queue_size" :> -1) }

SigmaZero == <<"zero">>

(* _Sigma = expr *)
assign_Sigma(s, expr) ==
    [s EXCEPT !.Sigma_hist = Append(@, expr),
              !.Sigma = <<"Sigma", Len(s.Sigma_hist) + 1>>]

(* ESKF::ESKF *)
ESKF(nh) ==
    LET imu_freq == param(nh, "imu_frequency", ImuFreqDefault)
        sigma_acc == param(nh, "sigma_acceleration", SigmaAccDefault)
        sigma_gyr == param(nh, "sigma_gyroscop", SigmaGyrDefault)
        sigma_bias_acc == param(nh, "sigma_acceleration_bias", SigmaBiasAccDefault)
        sigma_bias_gyr == param(nh, "sigma_gyroscope_bias", SigmaBiasGyrDefault)
        g == param(nh, "gravity", GravityDefault)
        init_bias_acc_x == param(nh, "init_bias_acc_x", InitBiasAccDefault)
        init_bias_acc_y == param(nh, "init_bias_acc_y", InitBiasAccDefault)
        init_bias_acc_z == param(nh, "init_bias_acc_z", InitBiasAccDefault)
        acc_queue_size == param(nh, "acc_queue_size", AccQueueSizeDefault)
    IN [ imu_freq |-> imu_freq,
         sigma_acc |-> sigma_acc,
         sigma_gyr |-> sigma_gyr,
         sigma_bias_acc |-> sigma_bias_acc,
         sigma_bias_gyr |-> sigma_bias_gyr,
         g |-> g,
         acc_queue_size |-> acc_queue_size,
         \* nominal states
         velocity |-> VZero,
         rotation |-> MIdentity,
         quaternion |-> Quat(setRPY(0, 0, 0)),
         position |-> VZero,
         bias_acc |-> Vec(init_bias_acc_x, init_bias_acc_y, init_bias_acc_z),
         bias_gyr |-> VZero,
         \* error states
         d_velocity |-> VZero,
         d_theta |-> VZero,
         d_rotation |-> MIdentity,
         d_position |-> VZero,
         d_bias_acc |-> VZero,
         d_bias_gyr |-> VZero,
         \* imu
         imu_acceleration |-> VZero,
         imu_angular_velocity |-> VZero,
         imu_orientation |-> Quat(setRPY(0, 0, 0)),
         \* measurements (the two covariances are not initialized by the
         \* constructor and not read before measurement_callback sets them)
         m_velocity |-> VZero,
         m_rotation |-> MIdentity,
         m_quaternion |-> Quat(setRPY(0, 0, 0)),
         m_position |-> VZero,
         m_theta |-> VZero,
         m_pose_sigma |-> [i \in 1..6 |-> [j \in 1..6 |-> 0]],
         m_twist_sigma |-> [i \in 1..6 |-> [j \in 1..6 |-> 0]],
         got_measurements |-> FALSE,
         \* Jacobians and covariances
         Fx |-> <<"zero">>,
         Fn |-> <<"zero">>,
         Sigma |-> SigmaZero,
         Sigma_hist |-> <<>>,
         Q |-> <<"zero">>,
         gravity |-> Vec(0, 0, g),
         \* time (_dt is not initialized and is written before it is read)
         init_time |-> TRUE,
         imu_time |-> [sec |-> 0, nsec |-> 0],
         dt |-> Num(0),
         \* publishers (latched): how many messages were sent, and the latest
         odom_pub |-> [sent |-> 0, latest |-> <<>>],
         bias_pub |-> [sent |-> 0, latest |-> <<>>],
         \* acc queue
         acc_queue |-> <<>>,
         acc_queue_count |-> 0,
         \* the functions the latest handler ran, in order
         trace |-> <<>> ]

Log(s, entry) == [s EXCEPT !.trace = Append(@, entry)]

(***************************************************************************)
(* The IMU cycle.                                                          *)
(***************************************************************************)
(* ros::Time of a clock reading in ticks: whole seconds and the ticks of   *)
(* the second under way. *)
Time(ticks) == [sec |-> ticks \div TicksPerSec, nsec |-> ticks % TicksPerSec]

(* ros::Time::toSec, in ticks *)
toSec(t) == t.sec * TicksPerSec + t.nsec

(* update_time that leaves _init_time set. *)
update_time_keep_init(s, msg) ==
    LET t == IF s.init_time
             THEN Log([s EXCEPT !.dt = Recip(s.imu_freq)], <<"update_time", "nominal">>)
             ELSE Log([s EXCEPT !.dt = Num(toSec(msg.stamp) - toSec(s.imu_time))],
                      <<"update_time", "measured">>)
    IN [t EXCEPT !.imu_time = msg.stamp]

(* ESKF::update_time.  The trace entry names the branch taken. *)
update_time(s, msg) ==
    LET t == IF s.init_time
             THEN Log([s EXCEPT !.dt = Recip(s.imu_freq), !.init_time = FALSE],
                      <<"update_time", "nominal">>)
             ELSE Log([s EXCEPT !.dt = Num(toSec(msg.stamp) - toSec(s.imu_time))],
                      <<"update_time", "measured">>)
    IN [t EXCEPT !.imu_time = msg.stamp]

(* Sum over the queue slots 0 .. n-1 of slot[c] / size, as the loop adds them. *)
RECURSIVE AccSum(_, _, _, _)
AccSum(queue, size, c, n) ==
    IF n <= 0 THEN 0
    ELSE AccSum(queue, size, c, n - 1) + (queue[n][c] \div size)

(* update_imu that appends one sample more before it starts to overwrite. *)
update_imu_fill_one_more(s, msg) ==
    LET size == s.acc_queue_size
        a == IF s.acc_queue_count <= size
             THEN [s EXCEPT !.acc_queue = Append(@, msg.linear_acceleration),
                            !.imu_acceleration =
                                Vec(msg.linear_acceleration[1],
                                    msg.linear_acceleration[2],
                                    msg.linear_acceleration[3])]
             ELSE LET q == IF size > 0
                           THEN [s.acc_queue EXCEPT
                                    ![(s.acc_queue_count % size) + 1] =
                                        msg.linear_acceleration]
                           ELSE s.acc_queue
                  IN [s EXCEPT !.acc_queue = q,
                               !.imu_acceleration =
                                   Vec(AccSum(q, size, 1, size),
                                       AccSum(q, size, 2, size),
                                       AccSum(q, size, 3, size))]
    IN Log([a EXCEPT !.acc_queue_count = @ + 1,
                     !.imu_angular_velocity =
                         Vec(msg.angular_velocity[1], msg.angular_velocity[2],
                             msg.angular_velocity[3]),
                     !.imu_orientation = msg.orientation],
           <<"update_imu">>)

(* update_imu that overwrites the slot after the oldest one. *)
update_imu_wrong_slot(s, msg) ==
    LET size == s.acc_queue_size
        a == IF s.acc_queue_count < size
             THEN [s EXCEPT !.acc_queue = Append(@, msg.linear_acceleration),
                            !.imu_acceleration =
                                Vec(msg.linear_acceleration[1],
                                    msg.linear_acceleration[2],
                                    msg.linear_acceleration[3])]
             ELSE LET q == IF size > 0
                           THEN [s.acc_queue EXCEPT
                                    ![((s.acc_queue_count + 1) % size) + 1] =
                                        msg.linear_acceleration]
                           ELSE s.acc_queue
                  IN [s EXCEPT !.acc_queue = q,
                               !.imu_acceleration =
                                   Vec(AccSum(q, size, 1, size),
                                       AccSum(q, size, 2, size),
                                       AccSum(q, size, 3, size))]
    IN Log([a EXCEPT !.acc_queue_count = @ + 1,
                     !.imu_angular_velocity =
                         Vec(msg.angular_velocity[1], msg.angular_velocity[2],
                             msg.angular_velocity[3]),
                     !.imu_orientation = msg.orientation],
           <<"update_imu">>)

(* ESKF::update_imu.  With acc_queue_size <= 0 the else branch indexes an   *)
(* empty vector (and divides by zero for size 0): of the outcomes a build   *)
(* can produce, the one that survives leaves the queue as it is; the other  *)
(* is the crash taken in ImuStep.                                           *)
update_imu(s, msg) ==
    LET size == s.acc_queue_size
        a == IF s.acc_queue_count < size
             THEN [s EXCEPT !.acc_queue = Append(@, msg.linear_acceleration),
                            !.imu_acceleration =
                                Vec(msg.linear_acceleration[1],
                                    msg.linear_acceleration[2],
                                    msg.linear_acceleration[3])]
             ELSE LET q == IF size > 0
                           THEN [s.acc_queue EXCEPT
                                    ![(s.acc_queue_count % size) + 1] =
                                        msg.linear_acceleration]
                           ELSE s.acc_queue
                  IN [s EXCEPT !.acc_queue = q,
                               !.imu_acceleration =
                                   Vec(AccSum(q, size, 1, size),
                                       AccSum(q, size, 2, size),
                                       AccSum(q, size, 3, size))]
    IN Log([a EXCEPT !.acc_queue_count = @ + 1,
                     !.imu_angular_velocity =
                         Vec(msg.angular_velocity[1], msg.angular_velocity[2],
                             msg.angular_velocity[3]),
                     !.imu_orientation = msg.orientation],
           <<"update_imu">>)

(* ESKF::propagate_state *)
propagate_state(s) ==
    LET acc == VAdd(MV(s.rotation, VSub(s.imu_acceleration, s.bias_acc)), s.gravity)
        velocity == VAdd(s.velocity, VScale(acc, s.dt))
        rotation == MM(s.rotation,
                       vec_to_rot(VScale(VSub(s.imu_angular_velocity, s.bias_gyr), s.dt)))
        position == VAdd(VAdd(s.position, VScale(s.velocity, s.dt)),
                         VScale(VScale(VHalf(acc), s.dt), s.dt))
    IN Log([s EXCEPT !.velocity = velocity,
                     !.rotation = rotation,
                     !.position = position,
                     !.quaternion = getRotation(rotation)],
           <<"propagate_state">>)

(* ESKF::propagate_error: empty in the source *)
propagate_error(s) == Log(s, <<"propagate_error">>)

(***************************************************************************)
(* Eigen expressions.  A 15x15 or 6x6 matrix is kept by 3x3 blocks; a      *)
(* block is I, Z, or the product the source writes.                        *)
(***************************************************************************)
I3 == <<"I">>
Z3 == <<"Z">>

(* Eigen block<3,3>(i, j) of a 15x15 matrix: rows i.., columns j.. (from 0) *)
Block(m, i, j) == <<"block", m, i, j>>

(* pow(sigma * dt, 2.0) * I *)
Pow2(sigma, dt) == <<"pow2", sigma, dt>>

(* ESKF::propagate_covariance *)
propagate_covariance(s) ==
    LET R == s.rotation
        R_1 == skew(VSub(s.imu_acceleration, s.bias_acc))
        R_2 == vec_to_rot(VScale(VSub(s.imu_angular_velocity, s.bias_gyr), s.dt))
        Fx == <<"blocks",
                << <<I3, <<"-A*B*s", R, R_1, s.dt>>, Z3, <<"-A*s", R, s.dt>>, Z3>>,
                   <<Z3, <<"At", R_2>>, Z3, Z3, <<"-I*s", s.dt>> >>,
                   << <<"I*s", s.dt>>, Z3, I3, Z3, Z3>>,
                   <<Z3, Z3, Z3, I3, Z3>>,
                   <<Z3, Z3, Z3, Z3, I3>> >> >>
        Fn == <<"blocks",
                << << <<"A", R>>, Z3, Z3, Z3>>,
                   <<Z3, I3, Z3, Z3>>,
                   <<Z3, Z3, Z3, Z3>>,
                   <<Z3, Z3, I3, Z3>>,
                   <<Z3, Z3, Z3, I3>> >> >>
        Q == <<"blocks",
               << <<Pow2(s.sigma_acc, s.dt), Z3, Z3, Z3>>,
                  <<Z3, Pow2(s.sigma_gyr, s.dt), Z3, Z3>>,
                  <<Z3, Z3, Pow2(s.sigma_bias_acc, s.dt), Z3>>,
                  <<Z3, Z3, Z3, Pow2(s.sigma_bias_gyr, s.dt)>> >> >>
    IN Log(assign_Sigma([s EXCEPT !.Fx = Fx, !.Fn = Fn, !.Q = Q],
                        <<"Fx*S*Fxt+Fn*Q*Fnt", Fx, s.Sigma, Fn, Q>>),
           <<"propagate_covariance">>)

(* ros::Publisher::publish on a latched topic *)
publish(pub, msg) == [sent |-> pub.sent + 1, latest |-> <<msg>>]

(* ESKF::publish_odom.  pose_cov and twist_cov are the 6x6 matrices the    *)
(* loop copies element by element into the message's row-major arrays, by  *)
(* 3x3 blocks: <<row block 1, row block 2>>.                               *)
publish_odom(s) ==
    LET R == s.rotation
        pose_sigma ==
            << << Block(s.Sigma, 6, 6), <<"A*Bt", Block(s.Sigma, 3, 6), R>> >>,
               << <<"A*B", R, Block(s.Sigma, 6, 3)>>,
                  <<"A*B*At", R, Block(s.Sigma, 3, 3)>> >> >>
        twist_sigma ==
            << << Block(s.Sigma, 0, 0), <<"A*Bt", Z3, R>> >>,
               << <<"A*B", R, Z3>>, <<"A*s*I*At", R, s.sigma_gyr>> >> >>
        msg == [ frame_id |-> "world",
                 stamp |-> s.imu_time,
                 position |-> s.position,
                 orientation |-> s.quaternion,
                 twist_angular |-> s.imu_angular_velocity,
                 twist_linear |-> s.velocity,
                 pose_cov |-> pose_sigma,
                 twist_cov |-> twist_sigma ]
    IN Log([s EXCEPT !.odom_pub = publish(@, msg)], <<"publish_odom">>)

(* ESKF::publish_bias *)
publish_bias(s) ==
    LET msg == [ frame_id |-> "world",
                 stamp |-> s.imu_time,
                 linear |-> s.bias_acc,
                 angular |-> s.bias_gyr ]
    IN Log([s EXCEPT !.bias_pub = publish(@, msg)], <<"publish_bias">>)

(***************************************************************************)
(* The pose observation and the correction.                                *)
(***************************************************************************)
(* measurement_callback that leaves a still-pending observation in place. *)
measurement_callback_keep_pending(s, msg) ==
    IF s.got_measurements
    THEN Log([s EXCEPT !.trace = <<>>], <<"measurement_callback">>)
    ELSE LET m_rotation == setRotation(msg.orientation)
         IN Log([s EXCEPT !.m_velocity = Vec(msg.twist_linear[1], msg.twist_linear[2],
                                            msg.twist_linear[3]),
                          !.m_quaternion = msg.orientation,
                          !.m_rotation = m_rotation,
                          !.m_theta = getRPY(m_rotation),
                          !.m_position = Vec(msg.position[1], msg.position[2],
                                             msg.position[3]),
                          !.m_pose_sigma = [i \in 1..6 |-> [j \in 1..6 |->
                                               msg.pose_cov[6 * (i - 1) + (j - 1) + 1]]],
                          !.m_twist_sigma = [i \in 1..6 |-> [j \in 1..6 |->
                                               msg.twist_cov[6 * (i - 1) + (j - 1) + 1]]],
                          !.got_measurements = TRUE,
                          !.trace = <<>>],
                <<"measurement_callback">>)

(* ESKF::measurement_callback.  msg.pose_cov and msg.twist_cov are the      *)
(* row-major arrays of 36 numbers.                                          *)
measurement_callback(s, msg) ==
    LET m_rotation == setRotation(msg.orientation)
    IN Log([s EXCEPT !.m_velocity = Vec(msg.twist_linear[1], msg.twist_linear[2],
                                       msg.twist_linear[3]),
                     !.m_quaternion = msg.orientation,
                     !.m_rotation = m_rotation,
                     !.m_theta = getRPY(m_rotation),
                     !.m_position = Vec(msg.position[1], msg.position[2], msg.position[3]),
                     !.m_pose_sigma = [i \in 1..6 |-> [j \in 1..6 |->
                                          msg.pose_cov[6 * (i - 1) + (j - 1) + 1]]],
                     !.m_twist_sigma = [i \in 1..6 |-> [j \in 1..6 |->
                                          msg.twist_cov[6 * (i - 1) + (j - 1) + 1]]],
                     !.got_measurements = TRUE,
                     !.trace = <<>>],
           <<"measurement_callback">>)

(* H of update_error by 3x3 blocks: row block r observes error block H[r]   *)
(* (1 velocity, 2 attitude, 3 position, 4 accel bias, 5 gyro bias).         *)
H == << <<Z3, I3, Z3, Z3, Z3>>,
        <<Z3, Z3, I3, Z3, Z3>> >>

(* ESKF::update_error *)
update_error(s) ==
    LET y == <<s.m_theta, s.m_position>>
        x == <<s.d_velocity, s.d_theta, s.d_position, s.d_bias_acc, s.d_bias_gyr>>
        K == <<"S*Ht*inv(H*S*Ht+R)", s.Sigma, H, s.m_pose_sigma>>
        x1 == <<"K*(y-H*x)", K, y, H, x>>
        seg(k) == <<"segment", x1, k>>
        d_theta == seg(3)
        M == <<"I-K*H", K, H>>
        u == assign_Sigma([s EXCEPT !.d_velocity = seg(0),
                                    !.d_theta = d_theta,
                                    !.d_position = seg(6),
                                    !.d_bias_acc = seg(9),
                                    !.d_bias_gyr = seg(12),
                                    !.d_rotation = vec_to_rot(d_theta)],
                          <<"M*S*Mt+K*R*Kt", M, s.Sigma, K, s.m_pose_sigma>>)
    IN Log(u, <<"update_error", y, x, s.m_pose_sigma, s.Sigma, u.Sigma>>)

(* ESKF::update_state *)
update_state(s) ==
    LET rotation == MM(s.rotation, s.d_rotation)
    IN Log([s EXCEPT !.velocity = VAdd(@, s.d_velocity),
                     !.rotation = rotation,
                     !.position = VAdd(@, s.d_position),
                     !.bias_acc = VAdd(@, s.d_bias_acc),
                     !.bias_gyr = VAdd(@, s.d_bias_gyr),
                     !.quaternion = getRotation(rotation)],
           <<"update_state">>)

(* reset_error that forgets the position error. *)
reset_error_partial(s) ==
    Log([s EXCEPT !.d_velocity = VZero,
                  !.d_theta = VZero,
                  !.d_rotation = MIdentity,
                  !.d_bias_acc = VZero,
                  !.d_bias_gyr = VZero],
        <<"reset_error">>)

(* ESKF::reset_error *)
reset_error(s) ==
    Log([s EXCEPT !.d_velocity = VZero,
                  !.d_theta = VZero,
                  !.d_rotation = MIdentity,
                  !.d_position = VZero,
                  !.d_bias_acc = VZero,
                  !.d_bias_gyr = VZero],
        <<"reset_error">>)

(* The correction without the final _got_measurements = false. *)
correct_keep_flag(s) ==
    publish_bias(reset_error(update_state(update_error(s))))

(* The correction that publishes the bias before the error is injected. *)
correct_bias_first(s) ==
    LET c == reset_error(update_state(publish_bias(update_error(s))))
    IN [c EXCEPT !.got_measurements = FALSE]

(* The body of the if(_got_measurements) of imu_callback. *)
correct(s) ==
    LET c == publish_bias(reset_error(update_state(update_error(s))))
    IN [c EXCEPT !.got_measurements = FALSE]

(* imu_callback that corrects before it propagates. *)
imu_callback_correct_first(s, msg) ==
    LET u == update_imu(update_time([s EXCEPT !.trace = <<>>], msg), msg)
        c == IF u.got_measurements THEN correct(u) ELSE u
    IN publish_odom(propagate_covariance(propagate_error(propagate_state(c))))

(* ESKF::imu_callback *)
imu_callback(s, msg) ==
    LET p == propagate_covariance(propagate_error(propagate_state(
                 update_imu(update_time([s EXCEPT !.trace = <<>>], msg), msg))))
        c == IF p.got_measurements THEN correct(p) ELSE p
    IN publish_odom(c)

(***************************************************************************)
(* The event loop: messages are delivered one at a time and each callback  *)
(* runs to completion.                                                     *)
(***************************************************************************)
(* IMU samples: linear acceleration, angular velocity (quarter turns per   *)
(* tick) and the ticks since the stamp of the sample before. *)
ImuInputs ==
    { [acc |-> <<0, 0, 120>>,  gyr |-> <<0, 0, 0>>, delta |-> 2],
      [acc |-> <<0, 0, -120>>, gyr |-> <<0, 0, 0>>, delta |-> 2],
      [acc |-> <<240, 0, 0>>,  gyr |-> <<0, 0, 1>>, delta |-> 1] }

(* Row-major 6x6 array with p on the first three diagonal entries and a on *)
(* the last three. *)
DiagCov(p, a) ==
    [k \in 1..36 |->
        IF (k - 1) \div 6 = (k - 1) % 6
        THEN (IF (k - 1) \div 6 < 3 THEN p ELSE a)
        ELSE 0]

(* Pose observations: the n-th one delivered reports position (n, 0, 0),   *)
(* so that each carries a payload of its own. *)
MeasInputs(n) ==
    { [ position |-> <<n, 0, 0>>,
        orientation |-> Quat(setRPY(0, 0, 3 * n)),
        pose_cov |-> DiagCov(n, n + 1),
        twist_linear |-> <<0, 0, 0>>,
        twist_cov |-> DiagCov(0, 0) ] }

(* The update_error entries of a handler's trace. *)
Corrections(tr) == SelectSeq(tr, LAMBDA e : e[1] = "update_error")

(* The outcomes of update_imu's undefined behaviour when acc_queue_size <= 0. *)
Outcomes(s) == IF s.acc_queue_size <= 0 THEN {"crash", "survive"} ELSE {"defined"}

(* The clock reading, in ticks, when the node starts: the stamps of the    *)
(* first samples straddle a whole second. *)
StartTicks == TicksPerSec - 3

InitWith(servers) ==
    /\ ps \in servers
    /\ eskf = ESKF(ps)
    /\ crashed = FALSE
    /\ now = StartTicks
    /\ ev = "init"
    /\ n_imu = 0
    /\ n_meas = 0
    /\ burst = <<>>
    /\ last_burst = <<>>
    /\ last_imu = [stamp |-> Time(0), linear_acceleration |-> <<0, 0, 0>>,
                   angular_velocity |-> <<0, 0, 0>>, orientation |-> Quat(MIdentity)]
    /\ samples = <<>>
    /\ applied = <<>>
    /\ fresh = FALSE
    /\ dropped = {}

Init == InitWith(ValidParamServers)

InitAnyConfig == InitWith(ValidParamServers \cup InvalidParamServers)

(* An IMU message arrives on /imu. *)
DeliverImu ==
    /\ ~crashed
    /\ n_imu < MaxImu
    /\ \E in \in ImuInputs, o \in Outcomes(eskf) :
         LET msg == [ stamp |-> Time(now + in.delta),
                      linear_acceleration |-> in.acc,
                      angular_velocity |-> in.gyr,
                      orientation |-> Quat(MIdentity) ]
             after == IF o = "crash"
                      THEN update_time([eskf EXCEPT !.trace = <<>>], msg)
                      ELSE imu_callback(eskf, msg)
             c == Corrections(after.trace)
         IN /\ eskf' = after
            /\ applied' = applied \o [i \in 1..Len(c) |-> c[i][2]]
            /\ fresh' = (fresh /\ c = <<>>)
            /\ crashed' = (o = "crash")
            /\ now' = now + in.delta
            /\ last_imu' = msg
            /\ samples' = Append(samples, in.acc)
    /\ ev' = "imu"
    /\ n_imu' = n_imu + 1
    /\ last_burst' = burst
    /\ burst' = <<>>
    /\ UNCHANGED <<ps, n_meas, dropped>>

(* A pose observation arrives on /measurements. *)
DeliverMeasurement ==
    /\ ~crashed
    /\ n_meas < MaxMeas
    /\ \E msg \in MeasInputs(n_meas + 1) :
         /\ eskf' = measurement_callback(eskf, msg)
         /\ burst' = Append(burst, msg)
    /\ ev' = "meas"
    /\ n_meas' = n_meas + 1
    /\ fresh' = TRUE
    /\ dropped' = IF burst # <<>> THEN dropped \cup {burst[Len(burst)].position} ELSE dropped
    /\ UNCHANGED <<ps, crashed, now, n_imu, last_burst, last_imu, samples, applied>>

Next == DeliverImu \/ DeliverMeasurement

Spec == Init /\ [][Next]_vars

SpecAnyConfig == InitAnyConfig /\ [][Next]_vars

(***************************************************************************)
(* Reading a handler's trace.                                              *)
(***************************************************************************)
Count(tr, tag) == Len(SelectSeq(tr, LAMBDA e : e[1] = tag))
Index(tr, tag) == CHOOSE i \in 1..Len(tr) : tr[i][1] = tag
Once(tr, tag) == Count(tr, tag) = 1
CorrectionSteps == {"update_error", "update_state", "reset_error"}

(* The observation vector y and the 6x6 covariance an observation message  *)
(* stands for. *)
ObservationY(msg) ==
    <<getRPY(setRotation(msg.orientation)),
      Vec(msg.position[1], msg.position[2], msg.position[3])>>
ObservationCov(msg) ==
    [i \in 1..6 |-> [j \in 1..6 |-> msg.pose_cov[6 * (i - 1) + j]]]

(***************************************************************************)
(* C1: when k >= 1 observations arrive between two IMU samples, the next   *)
(* IMU cycle runs exactly one correction, on the position, attitude and    *)
(* covariance of the last of them; no correction ever uses an observation  *)
(* that a later one overwrote.                                             *)
(***************************************************************************)
C1_LastObservationCorrects ==
    /\ ev = "imu" =>
         LET c == Corrections(eskf.trace) IN
         /\ last_burst # <<>> => Len(c) = 1
         /\ \A i \in 1..Len(c) :
              /\ last_burst # <<>>
              /\ c[i][2] = ObservationY(last_burst[Len(last_burst)])
              /\ c[i][4] = ObservationCov(last_burst[Len(last_burst)])
    /\ \A i \in 1..Len(applied) : applied[i][2][2] \notin dropped

C1_Witness ==
    /\ ev = "imu"
    /\ Len(last_burst) = 2
    /\ Len(Corrections(eskf.trace)) = 1
    /\ dropped # {}

(***************************************************************************)
(* C2: no observation is applied twice.  A correction runs only in an IMU  *)
(* cycle that starts with the pending flag set and after an observation    *)
(* arrived since the correction before; the flag is clear when the cycle   *)
(* ends; the corrections never outnumber the observations received.        *)
(***************************************************************************)
C2_NoObservationAppliedTwice ==
    /\ [](/\ Len(applied) <= n_meas
          /\ \A i, j \in 1..Len(applied) : i # j => applied[i] # applied[j]
          /\ (ev = "imu" => ~eskf.got_measurements))
    /\ [][(ev' = "imu" /\ Corrections(eskf'.trace) # <<>>)
             => (eskf.got_measurements /\ fresh)]_vars

C2_Witness ==
    /\ Len(applied) = 2
    /\ n_meas = 2
    /\ n_imu >= 3

(***************************************************************************)
(* C3: a correction (update_error, update_state, reset_error) runs only    *)
(* inside an IMU cycle, after that cycle's propagate_state and             *)
(* propagate_covariance, on the covariance that propagation assigned, and  *)
(* before its publish_odom; the arrival of an observation changes only the *)
(* pending payload and the pending flag.                                   *)
(***************************************************************************)
C3_TraceOrder ==
    LET tr == eskf.trace IN
    /\ ev = "meas" => \A tag \in CorrectionSteps : Count(tr, tag) = 0
    /\ ev = "imu" =>
         /\ Once(tr, "propagate_state")
         /\ Once(tr, "propagate_covariance")
         /\ Once(tr, "publish_odom")
         /\ \A tag \in CorrectionSteps :
              /\ Count(tr, tag) <= 1
              /\ Count(tr, tag) = 1 =>
                   /\ Index(tr, "propagate_state") < Index(tr, tag)
                   /\ Index(tr, "propagate_covariance") < Index(tr, tag)
                   /\ Index(tr, tag) < Index(tr, "publish_odom")

C3_ArrivalTouchesPendingOnly ==
    ev' = "meas" =>
        [eskf' EXCEPT !.m_velocity = eskf.m_velocity,
                      !.m_quaternion = eskf.m_quaternion,
                      !.m_rotation = eskf.m_rotation,
                      !.m_theta = eskf.m_theta,
                      !.m_position = eskf.m_position,
                      !.m_pose_sigma = eskf.m_pose_sigma,
                      !.m_twist_sigma = eskf.m_twist_sigma,
                      !.got_measurements = eskf.got_measurements,
                      !.trace = eskf.trace] = eskf

C3_CorrectionReadsPropagated ==
    (ev' = "imu" /\ Corrections(eskf'.trace) # <<>>) =>
        LET k == Len(eskf.Sigma_hist) + 1 IN
        /\ Corrections(eskf'.trace)[1][5] = <<"Sigma", k>>
        /\ eskf'.Sigma_hist[k][1] = "Fx*S*Fxt+Fn*Q*Fnt"

C3_CorrectionInsideImuCycle ==
    /\ []C3_TraceOrder
    /\ [][C3_ArrivalTouchesPendingOnly /\ C3_CorrectionReadsPropagated]_vars

C3_Witness ==
    /\ ev = "imu"
    /\ n_imu >= 2
    /\ Corrections(eskf.trace) # <<>>
    /\ Index(eskf.trace, "propagate_covariance") < Index(eskf.trace, "update_error")
    /\ Index(eskf.trace, "reset_error") < Index(eskf.trace, "publish_odom")

(***************************************************************************)
(* C4: after construction and at the end of every handler the five error   *)
(* means are zero and the error rotation is the identity; every correction *)
(* read a zero error mean; and after a cycle that corrected, Sigma is the  *)
(* value update_error assigned.                                            *)
(***************************************************************************)
ErrorMeanZero(s) ==
    /\ s.d_velocity = VZero
    /\ s.d_theta = VZero
    /\ s.d_position = VZero
    /\ s.d_bias_acc = VZero
    /\ s.d_bias_gyr = VZero
    /\ s.d_rotation = MIdentity

C4_ErrorMeanZero ==
    /\ ErrorMeanZero(eskf)
    /\ \A i \in 1..Len(Corrections(eskf.trace)) :
         /\ Corrections(eskf.trace)[i][3] = <<VZero, VZero, VZero, VZero, VZero>>
         /\ Corrections(eskf.trace)[i][6] = eskf.Sigma

C4_Witness ==
    /\ ev = "imu"
    /\ Corrections(eskf.trace) # <<>>
    /\ eskf.position # VZero
    /\ eskf.Sigma # SigmaZero

(***************************************************************************)
(* C5: the acceleration handed to propagation after the k-th sample.       *)
(***************************************************************************)
Min(a, b) == IF a < b THEN a ELSE b

(* Sum of component c of the m most recent samples. *)
RECURSIVE SumRecent(_, _, _)
SumRecent(seq, m, c) ==
    IF m <= 0 THEN 0
    ELSE seq[Len(seq)][c] + SumRecent(SubSeq(seq, 1, Len(seq) - 1), m - 1, c)

(* v is the arithmetic mean of the m most recent samples: m * v = their sum. *)
IsMeanOfRecent(v, m) ==
    /\ IsVec(v)
    /\ \A c \in 1..3 : m * v[2][c] = SumRecent(samples, m, c)

(* C5 as claimed: for capacity N >= 1, after the k-th sample (k >= 1) the  *)
(* acceleration is the mean of the most recent min(k, N) samples.          *)
C5_MeanOfRecentSamples ==
    (eskf.acc_queue_size >= 1 /\ Len(samples) >= 1) =>
        IsMeanOfRecent(eskf.imu_acceleration, Min(Len(samples), eskf.acc_queue_size))

(* C5 as amended: for capacity N >= 1, after the k-th sample the           *)
(* acceleration is the k-th sample itself while k <= N, and the mean of    *)
(* the N most recent samples once k > N.                                   *)
C5_RawThenMeanOfN ==
    LET N == eskf.acc_queue_size
        k == Len(samples)
    IN (N >= 1 /\ k >= 1) =>
         /\ k <= N => eskf.imu_acceleration =
                         Vec(samples[k][1], samples[k][2], samples[k][3])
         /\ k > N => IsMeanOfRecent(eskf.imu_acceleration, N)

C5_Witness ==
    /\ eskf.acc_queue_size >= 2
    /\ Len(samples) > eskf.acc_queue_size
    /\ samples[Len(samples)] # samples[Len(samples) - 1]
    /\ eskf.imu_acceleration # Vec(samples[Len(samples)][1], samples[Len(samples)][2],
                                   samples[Len(samples)][3])

(***************************************************************************)
(* C6: from the initial state with zero biases, if every accelerometer     *)
(* sample is (0, 0, g) with g the configured gravity, every angular        *)
(* velocity is zero and no observation arrives, velocity and position are  *)
(* (0, 0, 0) after every propagation step.                                 *)
(***************************************************************************)
C6_GravityCancels ==
    ( /\ n_imu >= 1
      /\ n_meas = 0
      /\ eskf.bias_acc = VZero
      /\ eskf.imu_angular_velocity = VZero
      /\ \A i \in 1..Len(samples) : samples[i] = <<0, 0, eskf.g>> )
    => /\ eskf.velocity = VZero
       /\ eskf.position = VZero

(***************************************************************************)
(* C7: every IMU sample produces exactly one odometry message, emitted     *)
(* after any correction of that cycle, stamped with the sample's stamp and *)
(* carrying the state the cycle ends in; it produces a bias message in     *)
(* that cycle iff a correction ran in it, carrying the post-correction     *)
(* biases; an observation arrival produces no message.                     *)
(***************************************************************************)
C7_OutputsPerCycle ==
    LET tr == eskf.trace IN
    /\ eskf.odom_pub.sent = n_imu
    /\ eskf.bias_pub.sent = Len(applied)
    /\ ev = "imu" =>
         LET odom == eskf.odom_pub.latest[1] IN
         /\ Once(tr, "publish_odom")
         /\ tr[Len(tr)][1] = "publish_odom"
         /\ odom.stamp = last_imu.stamp
         /\ odom.position = eskf.position
         /\ odom.orientation = eskf.quaternion
         /\ odom.twist_linear = eskf.velocity
         /\ Count(tr, "publish_bias") = Count(tr, "update_error")
         /\ Count(tr, "publish_bias") <= 1
         /\ Once(tr, "publish_bias") =>
              LET bias == eskf.bias_pub.latest[1] IN
              /\ Index(tr, "update_state") < Index(tr, "publish_bias")
              /\ Index(tr, "publish_bias") < Index(tr, "publish_odom")
              /\ bias.stamp = last_imu.stamp
              /\ bias.linear = eskf.bias_acc
              /\ bias.angular = eskf.bias_gyr
    /\ ev = "meas" =>
         /\ Count(tr, "publish_odom") = 0
         /\ Count(tr, "publish_bias") = 0

C7_Witness ==
    /\ ev = "imu"
    /\ n_imu >= 2
    /\ Once(eskf.trace, "publish_bias")
    /\ eskf.bias_pub.sent < eskf.odom_pub.sent
    /\ eskf.bias_pub.latest[1].linear # Vec(0, 0, param(ps, "init_bias_acc_z", InitBiasAccDefault))

(***************************************************************************)
(* C8: the pose covariance of the odometry output is in [attitude;         *)
(* position] order: rows/columns 0-2 come from Sigma's attitude block      *)
(* (3-5), rows/columns 3-5 from Sigma's position block (6-8), the          *)
(* position-related blocks being the rotated ones; it is the order in      *)
(* which update_error reads an observation's covariance (y = [theta;       *)
(* position]).                                                             *)
(***************************************************************************)
C8_PoseCovAttitudeThenPosition ==
    ev = "imu" =>
        LET cov == eskf.odom_pub.latest[1].pose_cov
            S == eskf.Sigma
            R == eskf.rotation
            c == Corrections(eskf.trace)
        IN /\ cov[1][1] = Block(S, 3, 3)
           /\ cov[1][2] = <<"A*Bt", Block(S, 3, 6), R>>
           /\ cov[2][1] = <<"A*B", R, Block(S, 6, 3)>>
           /\ cov[2][2] = <<"A*B*At", R, Block(S, 6, 6)>>
           /\ \A i \in 1..Len(c) : c[i][2] = <<eskf.m_theta, eskf.m_position>>

(***************************************************************************)
(* C9: a value set under the option sigma_gyroscope is the gyroscope noise *)
(* standard deviation used in Q and in the angular twist covariance; the   *)
(* default is used only when that option is absent.                        *)
(***************************************************************************)
C9_SigmaGyroscopeOptionUsed ==
    LET used == IF "sigma_gyroscope" \in DOMAIN ps
                THEN ps["sigma_gyroscope"] ELSE SigmaGyrDefault
    IN ev = "imu" =>
         /\ eskf.Q[2][2][2] = Pow2(used, eskf.dt)
         /\ eskf.odom_pub.latest[1].twist_cov[2][2] =
                <<"A*s*I*At", eskf.rotation, used>>

(***************************************************************************)
(* C10: a configuration with imu_frequency <= 0 or acc_queue_size <= 0 is  *)
(* rejected at startup: no IMU sample is ever processed with such a value. *)
(***************************************************************************)
C10_InvalidConfigRejected ==
    n_imu > 0 =>
        /\ eskf.imu_freq > 0
        /\ eskf.acc_queue_size > 0

(***************************************************************************)
(* C11: the nominal step 1/imu_frequency is used for exactly one IMU       *)
(* sample, the first, however many observations arrive before or after     *)
(* it; for every later IMU sample dt is that sample's stamp minus the      *)
(* stamp of the IMU sample before it; the stored last-IMU stamp is set on  *)
(* every IMU sample and by no other event.                                 *)
(***************************************************************************)
C11_TimeState ==
    LET tr == eskf.trace IN
    /\ n_imu = 0 => eskf.init_time
    /\ n_imu >= 1 => /\ ~eskf.init_time
                     /\ eskf.imu_time = last_imu.stamp
                     /\ toSec(eskf.imu_time) = now
    /\ n_imu = 1 => eskf.dt = Recip(eskf.imu_freq)
    /\ ev = "imu" => /\ Once(tr, "update_time")
                     /\ tr[Index(tr, "update_time")][2] =
                            IF n_imu = 1 THEN "nominal" ELSE "measured"
    /\ ev = "meas" => Count(tr, "update_time") = 0

C11_TimeStep ==
    /\ (n_imu' = n_imu + 1 /\ n_imu >= 1) => eskf'.dt = Num(now' - now)
    /\ n_imu' = n_imu => /\ eskf'.imu_time = eskf.imu_time
                         /\ eskf'.dt = eskf.dt
                         /\ eskf'.init_time = eskf.init_time

C11_NominalStepFirstSampleOnly == []C11_TimeState /\ [][C11_TimeStep]_vars

C11_Witness ==
    /\ ev = "imu"
    /\ n_imu >= 3
    /\ n_meas >= 1
    /\ eskf.dt # Recip(eskf.imu_freq)
    /\ last_imu.stamp.sec >= 1
    /\ last_imu.stamp.nsec < 3

(***************************************************************************)
(* C12: for capacity N >= 1 the buffer's length is min(count, N), the      *)
(* counter grows by one per push, and once count >= N a push overwrites    *)
(* slot (count mod N), the slot of the oldest retained sample, so that the *)
(* buffer holds exactly the min(count, N) most recent samples.             *)
(***************************************************************************)
C12_BufferState ==
    LET N == eskf.acc_queue_size
        k == eskf.acc_queue_count
        q == eskf.acc_queue
    IN N >= 1 =>
         /\ Len(q) = Min(k, N)
         /\ Len(q) <= N
         /\ k = n_imu
         /\ k = Len(samples)
         /\ \A i \in 1..k : i > k - N => q[((i - 1) % N) + 1] = samples[i]

C12_BufferStep ==
    LET N == eskf.acc_queue_size
        k == eskf.acc_queue_count
        slot == (k % N) + 1
    IN (N >= 1 /\ n_imu' = n_imu + 1) =>
         /\ eskf'.acc_queue_count = k + 1
         /\ k < N => eskf'.acc_queue = Append(eskf.acc_queue, samples'[k + 1])
         /\ k >= N =>
              /\ eskf.acc_queue[slot] = samples[k - N + 1]
              /\ eskf'.acc_queue = [eskf.acc_queue EXCEPT ![slot] = samples'[k + 1]]

C12_RingBuffer ==
    /\ []C12_BufferState
    /\ [][C12_BufferStep]_vars
    /\ [][n_imu' = n_imu => /\ eskf'.acc_queue = eskf.acc_queue
                            /\ eskf'.acc_queue_count = eskf.acc_queue_count]_vars

C12_Witness ==
    /\ ev = "imu"
    /\ eskf.acc_queue_size >= 2
    /\ eskf.acc_queue_count >= 2 * eskf.acc_queue_size
    /\ eskf.acc_queue[1] # eskf.acc_queue[2]
    /\ samples[1] # samples[1 + eskf.acc_queue_size]

====
